---- MODULE Spec2Model ----
(***************************************************************************)
(* A model of angrop/rop_utils.py: the register-dependency extractor, the  *)
(* controllability prober with its five-value heuristic, the register      *)
(* resolver and the single-successor stepper.                              *)
(*                                                                         *)
(* Strings the code slices (names of symbolic roots) are sequences of      *)
(* one-character strings.  Bitvectors are the sets of their 1-bit          *)
(* positions (bit 0 is the least significant one).                         *)
(***************************************************************************)
EXTENDS Integers, Sequences, FiniteSets, TLC

VARIABLES pc,            \* which operation is running, and where it is
          caller_state,  \* the state object the caller passed in
          caller_before, \* snapshot of caller_state taken when the call began
          dep,           \* frame of get_ast_dependency
          dep_ret,       \* its return value
          ctl,           \* frame of get_ast_controllers
          ctl_ret,       \* its return value (a list)
          rn,            \* frame of get_reg_name
          rn_ret,        \* its return value or exception
          stp,           \* frame of step_to_unconstrained_successor
          stp_ret        \* its return value or exception

vars == <<pc, caller_state, caller_before, dep, dep_ret, ctl, ctl_ret,
          rn, rn_ret, stp, stp_ret>>

(***************************************************************************)
(* Bounds of the model.                                                    *)
(***************************************************************************)
MaxVars == 3        \* roots of one expression
MaxOffset == 9      \* largest register-file offset asked for or tabled
MaxSteps == 2       \* largest step budget passed to the stepper

(***************************************************************************)
(* Python string operations, on sequences of characters.                   *)
(***************************************************************************)
\* s.startswith(p)
StartsWith(s, p) == Len(s) >= Len(p) /\ SubSeq(s, 1, Len(p)) = p

\* s[n:]
SliceFrom(s, n) == SubSeq(s, n + 1, Len(s))

\* s.split(sep)[0]: everything before the first sep, all of s if there is none
SplitHead(s, sep) ==
    LET hits == {i \in 1..Len(s) : s[i] = sep}
        cut == IF hits = {} THEN Len(s) + 1
               ELSE CHOOSE i \in hits : \A j \in hits : i <= j
    IN SubSeq(s, 1, cut - 1)

SregPrefix == <<"s", "r", "e", "g", "_">>

(***************************************************************************)
(* Names of symbolic roots.  make_symbolic_state names a register's root   *)
(* "sreg_" + reg + "-" and the engine appends a freshness suffix; every    *)
(* other root (stack, memory, files) is named by the engine and does not   *)
(* begin with "sreg_".                                                     *)
(***************************************************************************)
RegNames == { <<"a">>, <<"b">>, <<"a", "b">> }

Suffixes == { <<>>, <<"_", "1">>, <<"-", "b">> }

TagName(reg, suffix) == SregPrefix \o reg \o <<"-">> \o suffix

TaggedNames == { TagName(r, s) : r \in RegNames, s \in Suffixes }

UntaggedNames == { <<"m", "e", "m", "_", "1">>,
                   <<"s", "r", "e", "g">>,
                   <<"r", "e", "g", "_", "a", "-">> }

NamePool == TaggedNames \cup UntaggedNames

\* the expressions handed to get_ast_dependency, by their ast.variables
AstVariables == { vs \in SUBSET NamePool : Cardinality(vs) <= MaxVars }

(***************************************************************************)
(* get_ast_dependency                                                      *)
(***************************************************************************)
\* var[5:].split("-")[0]
DepNameNoSplit(var) == SliceFrom(var, 5)

DepName(var) == SplitHead(SliceFrom(var, 5), "-")

\* one iteration of the loop over ast.variables: either the dependencies
\* grow, or the function returns [] at once
DepVisitSkipsUntagged(dependencies, var) ==
    IF StartsWith(var, SregPrefix)
    THEN [returned |-> FALSE, dependencies |-> dependencies \cup {DepName(var)}]
    ELSE [returned |-> FALSE, dependencies |-> dependencies]

DepVisit(dependencies, var) ==
    IF StartsWith(var, SregPrefix)
    THEN [returned |-> FALSE, dependencies |-> dependencies \cup {DepName(var)}]
    ELSE [returned |-> TRUE, dependencies |-> {}]

NoDep == [variables |-> {}, todo |-> {}, dependencies |-> {}]
NoDepRet == [kind |-> "none", elems |-> {}]

DepCall ==
    /\ pc = "idle"
    /\ \E vs \in AstVariables :
          dep' = [variables |-> vs, todo |-> vs, dependencies |-> {}]
    /\ pc' = "dep_loop"
    /\ UNCHANGED <<caller_state, caller_before, dep_ret, ctl, ctl_ret,
                   rn, rn_ret, stp, stp_ret>>

\* the set is iterated in an order the caller does not choose
DepIter ==
    /\ pc = "dep_loop"
    /\ dep.todo # {}
    /\ \E var \in dep.todo :
          LET v == DepVisit(dep.dependencies, var)
          IN IF v.returned
             THEN /\ dep_ret' = [kind |-> "list", elems |-> {}]
                  /\ pc' = "dep_done"
                  /\ dep' = [dep EXCEPT !.todo = @ \ {var}]
             ELSE /\ dep' = [dep EXCEPT !.todo = @ \ {var},
                                        !.dependencies = v.dependencies]
                  /\ pc' = "dep_loop"
                  /\ UNCHANGED dep_ret
    /\ UNCHANGED <<caller_state, caller_before, ctl, ctl_ret,
                   rn, rn_ret, stp, stp_ret>>

DepReturn ==
    /\ pc = "dep_loop"
    /\ dep.todo = {}
    /\ dep_ret' = [kind |-> "set", elems |-> dep.dependencies]
    /\ pc' = "dep_done"
    /\ UNCHANGED <<caller_state, caller_before, dep, ctl, ctl_ret,
                   rn, rn_ret, stp, stp_ret>>

(***************************************************************************)
(* Bitvectors, expressions and the solver of the engine.                   *)
(*                                                                         *)
(* An expression is one operator over leaves; a leaf is a symbolic root    *)
(* or a constant.  The constraints of a state are equalities root = value. *)
(* All operators are bitwise, so the solver decides each bit position on   *)
(* its own: a query is satisfiable iff every bit of the wanted value can   *)
(* be produced by some assignment of that bit of the roots.                *)
(***************************************************************************)
ArchBitsSet == {32, 64}

Regs == {"rax", "rbx"}

Roots == Regs \cup {"mem"}

ConstLeaves == {"c_zero", "c_k"}

Leaves == Roots \cup ConstLeaves

UnaryOps == {"id", "not"}

BinaryOps == {"and", "or", "xor"}

\* the order of the leaves, used to list each commutative pair once
LeafRank(x) ==
    CASE x = "rax" -> 1 [] x = "rbx" -> 2 [] x = "mem" -> 3
      [] x = "c_zero" -> 4 [] x = "c_k" -> 5

Exprs ==
    { [op |-> o, a |-> x, b |-> x] : o \in UnaryOps, x \in Leaves }
    \cup
    { e \in [op : BinaryOps, a : Leaves, b : Leaves] :
          LeafRank(e.a) < LeafRank(e.b) }

\* ast.symbolic: the expression has at least one symbolic root
Symbolic(ast) == {ast.a, ast.b} \cap Roots # {}

\* 0x4141414141414141 as a bit set (bytes 0x41 = 01000001)
Bits41 == { i \in 0..63 : i % 8 \in {0, 6} }

\* v % (1 << n)
ModPow2(v, n) == { i \in v : i < n }

\* test_val = 0x4141414141414141 % (2 << bits)
TestVal(bits) == ModPow2(Bits41, bits + 1)

\* a value compared with a register is taken at the register's width
AtWidth(v, bits) == ModPow2(v, bits)

ConstVal(x, bits) ==
    IF x = "c_zero" THEN {} ELSE ModPow2({ i \in 0..63 : i % 4 = 3 }, bits)

\* the assignments of bit i of the roots that the constraints allow
BitChoices(constraints, i) ==
    { f \in [Roots -> BOOLEAN] :
          \A c \in constraints : f[c[1]] = (i \in c[2]) }

LeafBit(x, f, i, bits) ==
    IF x \in Roots THEN f[x] ELSE i \in ConstVal(x, bits)

EvalBit(ast, f, i, bits) ==
    LET a == LeafBit(ast.a, f, i, bits)
        b == LeafBit(ast.b, f, i, bits)
    IN CASE ast.op = "id" -> a
         [] ast.op = "not" -> ~a
         [] ast.op = "and" -> a /\ b
         [] ast.op = "or" -> a \/ b
         [] ast.op = "xor" -> a # b

FeasibleBits(constraints, ast, i, bits) ==
    { EvalBit(ast, f, i, bits) : f \in BitChoices(constraints, i) }

\* state.se.satisfiable(extra_constraints=(ast == v,))
Satisfiable(state, ast, v) ==
    \A i \in 0..(state.bits - 1) :
        (i \in v) \in FeasibleBits(state.constraints, ast, i, state.bits)

\* len(state.se.any_n_int(ast, n)) for n = 2
AnyNIntLen2(state, ast) ==
    LET feas(i) == FeasibleBits(state.constraints, ast, i, state.bits)
        all == 0..(state.bits - 1)
    IN IF \E i \in all : feas(i) = {} THEN 0
       ELSE IF \E i \in all : Cardinality(feas(i)) = 2 THEN 2
       ELSE 1

(***************************************************************************)
(* unconstrained_check                                                     *)
(***************************************************************************)
\* ast.size(): expressions over registers have the word width
AstSize(state, ast) == state.bits

\* the nibbles of test_val_4, least significant first (0x99aabbccddeeee11)
Nibbles4 == <<1, 1, 14, 14, 14, 14, 13, 13, 12, 12, 11, 11, 10, 10, 9, 9>>

Pow2(n) == IF n = 0 THEN 1 ELSE IF n = 1 THEN 2 ELSE IF n = 2 THEN 4 ELSE 8

TestVal0 == {}
TestVal1(size) == 0..(size - 1)
TestVal2(size) == ModPow2({ i \in 0..63 : i % 2 = 1 }, size)
TestVal3(size) == ModPow2({ i \in 0..63 : i % 2 = 0 }, size)
TestVal4(size) ==
    ModPow2({ i \in 0..63 : (Nibbles4[(i \div 4) + 1] \div Pow2(i % 4)) % 2 = 1 },
            size)

UnconstrainedCheckZeroOnly(state, ast) == Satisfiable(state, ast, TestVal0)

UnconstrainedCheck(state, ast) ==
    LET size == AstSize(state, ast)
    IN /\ Satisfiable(state, ast, TestVal0)
       /\ Satisfiable(state, ast, TestVal1(size))
       /\ Satisfiable(state, ast, TestVal2(size))
       /\ Satisfiable(state, ast, TestVal3(size))
       /\ Satisfiable(state, ast, TestVal4(size))

(***************************************************************************)
(* get_ast_controllers                                                     *)
(***************************************************************************)
\* the states a caller passes: each register holds its tagged root or a
\* concrete value; a root may already be constrained
RegContents == [Regs -> {"sym", "conc"}]

CallerConstraints(bits) ==
    { {}, { <<"rax", {}>> }, { <<"mem", AtWidth(TestVal(bits), bits)>> } }

OptionSets == { {"TRACK_ACTION_HISTORY"},
                {"TRACK_ACTION_HISTORY", "BYPASS_UNSUPPORTED_SYSCALL"} }

CallerStates ==
    UNION { [bits : {w}, regs : RegContents, constraints : CallerConstraints(w),
             options : OptionSets] : w \in ArchBitsSet }

\* the prober reads no engine option: one option set is enough for it
ProberStates == { st \in CallerStates : "BYPASS_UNSUPPORTED_SYSCALL" \notin st.options }

\* the iterations of a dependency set: every order of every subset
RegDeps ==
    { <<>> } \cup { <<r>> : r \in Regs }
             \cup { p \in Regs \X Regs : p[1] # p[2] }

\* state.copy()
Copy(state) == state

\* for each reg of todo: skip it unless its content is symbolic, else
\* add_constraints(registers.load(reg) == test_val)
RECURSIVE PinRegs(_, _, _)
PinRegs(state, todo, test_val) ==
    IF todo = <<>> THEN state
    ELSE LET reg == Head(todo)
             next == IF state.regs[reg] # "sym" THEN state
                     ELSE [state EXCEPT !.constraints =
                              @ \cup { <<reg, AtWidth(test_val, state.bits)>> }]
         IN PinRegs(next, Tail(todo), test_val)

\* [a for a in reg_deps if a != reg]
Others(reg_deps, reg) == SelectSeq(reg_deps, LAMBDA a : a # reg)

\* controllers.append(reg) when the probe succeeded
RecordControllerFront(controllers, reg, ok) ==
    IF ok THEN <<reg>> \o controllers ELSE controllers

RecordController(controllers, reg, ok) ==
    IF ok THEN Append(controllers, reg) ELSE controllers

NoState == [bits |-> 0, regs |-> [r \in Regs |-> "conc"], constraints |-> {},
            options |-> {}]
NoAst == [op |-> "id", a |-> "c_zero", b |-> "c_zero"]
NoCtl == [ast |-> NoAst, reg_deps |-> <<>>, i |-> 0, controllers |-> <<>>,
          probes |-> <<>>, constrained_copy |-> NoState]

CtlCall ==
    /\ pc = "idle"
    /\ \E st \in ProberStates, ast \in Exprs, reg_deps \in RegDeps :
          /\ caller_state' = st
          /\ caller_before' = st
          /\ ctl' = [NoCtl EXCEPT !.ast = ast, !.reg_deps = reg_deps]
    /\ pc' = "ctl_start"
    /\ UNCHANGED <<dep, dep_ret, ctl_ret, rn, rn_ret, stp, stp_ret>>

\* lines 32-45: the constant-expression exit and the consistency guard
CtlGuard ==
    /\ pc = "ctl_start"
    /\ LET test_val == TestVal(caller_state.bits)
           constrained_copy == PinRegs(Copy(caller_state), ctl.reg_deps, test_val)
       IN IF ~Symbolic(ctl.ast)
          THEN /\ ctl_ret' = <<>>
               /\ pc' = "ctl_done"
               /\ UNCHANGED ctl
          ELSE /\ ctl' = [ctl EXCEPT !.constrained_copy = constrained_copy, !.i = 1]
               /\ IF AnyNIntLen2(constrained_copy, ctl.ast) > 1
                  THEN ctl_ret' = <<>> /\ pc' = "ctl_done"
                  ELSE pc' = "ctl_loop" /\ UNCHANGED ctl_ret
    /\ UNCHANGED <<caller_state, caller_before, dep, dep_ret,
                   rn, rn_ret, stp, stp_ret>>

\* lines 47-56: one iteration of the loop over reg_deps
CtlProbe ==
    /\ pc = "ctl_loop"
    /\ ctl.i <= Len(ctl.reg_deps)
    /\ LET test_val == TestVal(caller_state.bits)
           reg == ctl.reg_deps[ctl.i]
           constrained_copy ==
               PinRegs(Copy(caller_state), Others(ctl.reg_deps, reg), test_val)
           ok == UnconstrainedCheck(constrained_copy, ctl.ast)
       IN ctl' = [ctl EXCEPT !.constrained_copy = constrained_copy,
                             !.controllers = RecordController(@, reg, ok),
                             !.probes = Append(@, ok),
                             !.i = @ + 1]
    /\ UNCHANGED <<pc, caller_state, caller_before, dep, dep_ret, ctl_ret,
                   rn, rn_ret, stp, stp_ret>>

\* line 58
CtlReturn ==
    /\ pc = "ctl_loop"
    /\ ctl.i > Len(ctl.reg_deps)
    /\ ctl_ret' = ctl.controllers
    /\ pc' = "ctl_done"
    /\ UNCHANGED <<caller_state, caller_before, dep, dep_ret, ctl,
                   rn, rn_ret, stp, stp_ret>>

(***************************************************************************)
(* get_reg_name                                                            *)
(***************************************************************************)
\* architecture descriptors: the word width and the table offset -> name,
\* with one word-wide register at each tabled base
RegisterName(base) == <<"reg", base>>

RegisterTables(bits) ==
    { [o \in bases |-> RegisterName(o)] :
          bases \in SUBSET { b \in 0..MaxOffset : b % (bits \div 8) = 0 } }

Archs ==
    UNION { [bits : {w}, register_names : RegisterTables(w)] : w \in ArchBitsSet }

\* the offsets a caller asks for; None is [given |-> FALSE]
OffsetArgs ==
    { [given |-> FALSE, value |-> 0] }
    \cup { [given |-> TRUE, value |-> v] : v \in (-1)..MaxOffset }

\* the condition of the while loop
ScanContinuesStrict(arch, original_offset, reg_offset) ==
    reg_offset >= 0 /\ reg_offset > original_offset - (arch.bits \div 8)

ScanContinues(arch, original_offset, reg_offset) ==
    reg_offset >= 0 /\ reg_offset >= original_offset - (arch.bits \div 8)

NoArch == [bits |-> 0, register_names |-> <<>>]
NoRn == [arch |-> NoArch, original_offset |-> [given |-> FALSE, value |-> 0],
         reg_offset |-> 0]
NoRnRet == [kind |-> "none", name |-> <<>>]

\* lines 95-98
RnCall ==
    /\ pc = "idle"
    /\ \E arch \in Archs, off \in OffsetArgs :
          /\ rn' = [arch |-> arch, original_offset |-> off, reg_offset |-> off.value]
          /\ IF ~off.given
             THEN /\ rn_ret' = [kind |-> "RegNotFoundException", name |-> <<>>]
                  /\ pc' = "rn_done"
             ELSE /\ pc' = "rn_loop"
                  /\ UNCHANGED rn_ret
    /\ UNCHANGED <<caller_state, caller_before, dep, dep_ret, ctl, ctl_ret,
                   stp, stp_ret>>

\* lines 99-103: one iteration of the backward scan
RnScan ==
    /\ pc = "rn_loop"
    /\ ScanContinues(rn.arch, rn.original_offset.value, rn.reg_offset)
    /\ IF rn.reg_offset \in DOMAIN rn.arch.register_names
       THEN /\ rn_ret' = [kind |-> "name",
                          name |-> rn.arch.register_names[rn.reg_offset]]
            /\ pc' = "rn_done"
            /\ UNCHANGED rn
       ELSE /\ rn' = [rn EXCEPT !.reg_offset = @ - 1]
            /\ UNCHANGED <<pc, rn_ret>>
    /\ UNCHANGED <<caller_state, caller_before, dep, dep_ret, ctl, ctl_ret,
                   stp, stp_ret>>

\* line 104
RnFail ==
    /\ pc = "rn_loop"
    /\ ~ScanContinues(rn.arch, rn.original_offset.value, rn.reg_offset)
    /\ rn_ret' = [kind |-> "RegNotFoundException", name |-> <<>>]
    /\ pc' = "rn_done"
    /\ UNCHANGED <<caller_state, caller_before, dep, dep_ret, ctl, ctl_ret,
                   rn, stp, stp_ret>>

(***************************************************************************)
(* step_to_unconstrained_successor                                         *)
(***************************************************************************)
\* what one p.step() of the engine can produce: UnsupportedSyscallError,
\* or successors and unconstrained successors; when there is one
\* successor, whether its address is hooked and whether its path errored
EngineSteps ==
    { [kind |-> "syscall", succ |-> 0, unc |-> 0,
       hooked |-> FALSE, next_errored |-> FALSE] }
    \cup
    { e \in [kind : {"stepped"}, succ : 0..2, unc : 0..2,
             hooked : BOOLEAN, next_errored : BOOLEAN] :
          e.succ # 1 => (~e.hooked /\ ~e.next_errored) }

\* lines 176-186, for the outcome e of the step, the remaining budget and
\* the flag: what the invocation does next
StepDecisionZeroPasses(e, max_steps, allow_simprocedures) ==
    IF e.succ + e.unc > 1 THEN "ambiguous"
    ELSE IF e.succ = 1 /\ max_steps > 0
         THEN IF ~allow_simprocedures /\ e.hooked THEN "hooked" ELSE "recurse"
    ELSE IF e.succ = 1 /\ max_steps = 0 THEN "budget"
    ELSE IF e.unc >= 1 THEN "return" ELSE "index_error"

StepDecisionManyPass(e, max_steps, allow_simprocedures) ==
    IF e.succ + e.unc < 1 THEN "ambiguous"
    ELSE IF e.succ = 1 /\ max_steps > 0
         THEN IF ~allow_simprocedures /\ e.hooked THEN "hooked" ELSE "recurse"
    ELSE IF e.succ = 1 /\ max_steps = 0 THEN "budget"
    ELSE IF e.unc >= 1 THEN "return" ELSE "index_error"

StepDecisionBudgetOff(e, max_steps, allow_simprocedures) ==
    IF e.succ + e.unc # 1 THEN "ambiguous"
    ELSE IF e.succ = 1 /\ max_steps >= 0
         THEN IF ~allow_simprocedures /\ e.hooked THEN "hooked" ELSE "recurse"
    ELSE IF e.succ = 1 /\ max_steps = 0 THEN "budget"
    ELSE IF e.unc >= 1 THEN "return" ELSE "index_error"

StepDecisionNoHookCheck(e, max_steps, allow_simprocedures) ==
    IF e.succ + e.unc # 1 THEN "ambiguous"
    ELSE IF e.succ = 1 /\ max_steps > 0 THEN "recurse"
    ELSE IF e.succ = 1 /\ max_steps = 0 THEN "budget"
    ELSE IF e.unc >= 1 THEN "return" ELSE "index_error"

StepDecision(e, max_steps, allow_simprocedures) ==
    IF e.succ + e.unc # 1 THEN "ambiguous"
    ELSE IF e.succ = 1 /\ max_steps > 0
         THEN IF ~allow_simprocedures /\ e.hooked THEN "hooked" ELSE "recurse"
    ELSE IF e.succ = 1 /\ max_steps = 0 THEN "budget"
    ELSE IF e.unc >= 1 THEN "return" ELSE "index_error"

\* the successor objects of the n-th step of a call
Successor(n, cls) == [step |-> n, cls |-> cls, idx |-> 0]
NoSuccessor == [step |-> 0, cls |-> "none", idx |-> 0]

RopException(msg) == [kind |-> "RopException", msg |-> msg, p |-> NoSuccessor]

NoStp == [path |-> "None", max_steps0 |-> 0, max_steps |-> 0,
          allow_simprocedures |-> FALSE, depth |-> 0, errored |-> FALSE,
          hist |-> <<>>]
NoStpRet == [kind |-> "none", msg |-> "", p |-> NoSuccessor]

\* the states handed to the stepper differ in their engine options
StepperStates ==
    { st \in CallerStates :
          st.bits = 64 /\ st.constraints = {} /\ \A r \in Regs : st.regs[r] = "sym" }

\* the call: path is None (a fresh path, not errored) or a path the caller
\* began, which may have errored
StpCall ==
    /\ pc = "idle"
    /\ \E st \in StepperStates, m \in (-1)..MaxSteps, allow \in BOOLEAN,
          path \in {"None", "given", "given_errored"} :
          /\ caller_state' = st
          /\ caller_before' = st
          /\ stp' = [path |-> path, max_steps0 |-> m, max_steps |-> m,
                     allow_simprocedures |-> allow, depth |-> 0,
                     errored |-> (path = "given_errored"), hist |-> <<>>]
    /\ pc' = "stp_enter"
    /\ UNCHANGED <<dep, dep_ret, ctl, ctl_ret, rn, rn_ret, stp_ret>>

\* lines 166-173 of one invocation: the option is added to the state
\* argument, which in the outermost invocation is the caller's object
StpEnter ==
    /\ pc = "stp_enter"
    /\ caller_state' =
          IF stp.depth = 0
          THEN [caller_state EXCEPT !.options = @ \cup {"BYPASS_UNSUPPORTED_SYSCALL"}]
          ELSE caller_state
    /\ IF stp.errored
       THEN /\ stp_ret' = RopException("p.error")
            /\ stp' = [stp EXCEPT !.hist = Append(@,
                          [kind |-> "errored", succ |-> 0, unc |-> 0,
                           hooked |-> FALSE, next_errored |-> FALSE])]
            /\ pc' = "stp_done"
       ELSE /\ pc' = "stp_step"
            /\ UNCHANGED <<stp, stp_ret>>
    /\ UNCHANGED <<caller_before, dep, dep_ret, ctl, ctl_ret, rn, rn_ret>>

\* lines 175-189 of one invocation
StpStep ==
    /\ pc = "stp_step"
    /\ \E e \in EngineSteps :
          LET hist == Append(stp.hist, e)
              n == Len(hist)
              d == StepDecision(e, stp.max_steps, stp.allow_simprocedures)
          IN IF e.kind = "syscall"
             THEN /\ stp_ret' = RopException("Does not get to a single unconstrained successor")
                  /\ stp' = [stp EXCEPT !.hist = hist]
                  /\ pc' = "stp_done"
             ELSE CASE d = "ambiguous" ->
                         /\ stp_ret' = RopException("Does not get to a single successor")
                         /\ stp' = [stp EXCEPT !.hist = hist]
                         /\ pc' = "stp_done"
                    [] d = "hooked" ->
                         /\ stp_ret' = RopException("Skipping simprocedure")
                         /\ stp' = [stp EXCEPT !.hist = hist]
                         /\ pc' = "stp_done"
                    [] d = "recurse" ->
                         /\ stp' = [stp EXCEPT !.hist = hist,
                                               !.max_steps = @ - 1,
                                               !.depth = @ + 1,
                                               !.errored = e.next_errored]
                         /\ pc' = "stp_enter"
                         /\ UNCHANGED stp_ret
                    [] d = "budget" ->
                         /\ stp_ret' = RopException("Does not get to an unconstrained successor")
                         /\ stp' = [stp EXCEPT !.hist = hist]
                         /\ pc' = "stp_done"
                    [] d = "return" ->
                         /\ stp_ret' = [kind |-> "state", msg |-> "",
                                        p |-> Successor(n, "unc")]
                         /\ stp' = [stp EXCEPT !.hist = hist]
                         /\ pc' = "stp_done"
                    [] d = "index_error" ->
                         /\ stp_ret' = [kind |-> "IndexError", msg |-> "",
                                        p |-> NoSuccessor]
                         /\ stp' = [stp EXCEPT !.hist = hist]
                         /\ pc' = "stp_done"
    /\ UNCHANGED <<caller_state, caller_before, dep, dep_ret, ctl, ctl_ret,
                   rn, rn_ret>>

(***************************************************************************)
(* The caller: it makes one call at a time and takes the result.           *)
(***************************************************************************)
DoneStates == {"dep_done", "ctl_done", "rn_done", "stp_done"}

Init ==
    /\ pc = "idle"
    /\ caller_state = NoState
    /\ caller_before = NoState
    /\ dep = NoDep
    /\ dep_ret = NoDepRet
    /\ ctl = NoCtl
    /\ ctl_ret = <<>>
    /\ rn = NoRn
    /\ rn_ret = NoRnRet
    /\ stp = NoStp
    /\ stp_ret = NoStpRet

TakeResult ==
    /\ pc \in DoneStates
    /\ pc' = "idle"
    /\ caller_state' = NoState
    /\ caller_before' = NoState
    /\ dep' = NoDep
    /\ dep_ret' = NoDepRet
    /\ ctl' = NoCtl
    /\ ctl_ret' = <<>>
    /\ rn' = NoRn
    /\ rn_ret' = NoRnRet
    /\ stp' = NoStp
    /\ stp_ret' = NoStpRet

Next ==
    \/ DepCall \/ DepIter \/ DepReturn
    \/ CtlCall \/ CtlGuard \/ CtlProbe \/ CtlReturn
    \/ RnCall \/ RnScan \/ RnFail
    \/ StpCall \/ StpEnter \/ StpStep
    \/ TakeResult

Spec == Init /\ [][Next]_vars

(***************************************************************************)
(* Properties                                                              *)
(***************************************************************************)
\* the registers encoded in the tagged roots among vs
EncodedRegs(vs) == { r \in RegNames : \E s \in Suffixes : TagName(r, s) \in vs }

\* C1: for an expression all of whose roots follow the tagging convention,
\* get_ast_dependency returns exactly the set of the registers those roots
\* encode: each of them, and nothing else.
C1_ExactDependencies ==
    (pc = "dep_done" /\ dep.variables \subseteq TaggedNames)
        => dep_ret = [kind |-> "set", elems |-> EncodedRegs(dep.variables)]

C1_Witness ==
    /\ pc = "dep_done"
    /\ dep.variables \subseteq TaggedNames
    /\ Cardinality(dep.variables) = 3
    /\ Cardinality(dep_ret.elems) = 2

\* C2: if some root of the expression does not follow the tagging
\* convention, get_ast_dependency returns the empty list, whatever tagged
\* roots were visited before it: no partial dependency set is returned.
C2_UntaggedGivesEmpty ==
    (pc = "dep_done" /\ ~(dep.variables \subseteq TaggedNames))
        => dep_ret = [kind |-> "list", elems |-> {}]

C2_Witness ==
    /\ pc = "dep_done"
    /\ ~(dep.variables \subseteq TaggedNames)
    /\ dep.dependencies # {}
    /\ dep_ret.kind = "list"

\* s is a subsequence of t
IsSubsequence(s, t) ==
    \E f \in [1..Len(s) -> 1..Len(t)] :
        /\ \A k \in 1..Len(s) : s[k] = t[f[k]]
        /\ \A j, k \in 1..Len(s) : j < k => f[j] < f[k]

NoDuplicates(s) == \A j, k \in 1..Len(s) : j # k => s[j] # s[k]

\* C3: the result of get_ast_controllers holds only registers of the
\* supplied dependency set, each at most once, in the iteration order of
\* that set.
C3_ControllersSubsequence ==
    pc = "ctl_done"
        => /\ IsSubsequence(ctl_ret, ctl.reg_deps)
           /\ NoDuplicates(ctl_ret)

C3_Witness ==
    /\ pc = "ctl_done"
    /\ ctl.reg_deps = <<"rbx", "rax">>
    /\ ctl_ret = <<"rbx", "rax">>

AndOfRaxRbx == [op |-> "and", a |-> "rax", b |-> "rbx"]

AndScenario ==
    /\ pc = "ctl_done"
    /\ ctl.ast = AndOfRaxRbx
    /\ { ctl.reg_deps[k] : k \in 1..Len(ctl.reg_deps) } = {"rax", "rbx"}
    /\ \A r \in Regs : caller_before.regs[r] = "sym"
    /\ caller_before.constraints = {}

\* C4: for sreg_rax & sreg_rbx with dependency set {rax, rbx} and no other
\* constraint, get_ast_controllers returns the empty list, and it does so
\* because the five-value probe fails for each of the two registers.
C4_AndHasNoController ==
    AndScenario => (ctl_ret = <<>> /\ ctl.probes = <<FALSE, FALSE>>)

C4_Witness == AndScenario /\ caller_before.bits = 64 /\ ctl.probes = <<FALSE, FALSE>>

\* the tabled registers that contain the offset
Containing(arch, offset) ==
    { b \in DOMAIN arch.register_names :
          b <= offset /\ offset < b + (arch.bits \div 8) }

\* C5: get_reg_name returns a name only of a register that contains the
\* offset, and fails with RegNotFoundException for an offset that no
\* register contains.
C5_ContainingRegisterOnly ==
    (pc = "rn_done" /\ rn.original_offset.given)
        => LET inside == Containing(rn.arch, rn.original_offset.value)
           IN /\ rn_ret.kind = "name"
                    => \E b \in inside : rn_ret.name = rn.arch.register_names[b]
              /\ inside = {} => rn_ret.kind = "RegNotFoundException"

\* C6: a step whose successors and unconstrained successors do not number
\* exactly one ends the call with the RopException "Does not get to a single
\* successor", at the first invocation as at every recursive one.
C6_AmbiguousSuccessorFails ==
    \A k \in 1..Len(stp.hist) :
        (stp.hist[k].kind = "stepped" /\ stp.hist[k].succ + stp.hist[k].unc # 1)
            => /\ k = Len(stp.hist)
               /\ pc = "stp_done"
               /\ stp_ret = RopException("Does not get to a single successor")

C6_Witness ==
    /\ pc = "stp_done"
    /\ Len(stp.hist) = 2
    /\ stp.hist[2].succ = 1
    /\ stp.hist[2].unc = 1
    /\ stp_ret.kind = "RopException"

\* the engine steps a call has made
EngineStepCount ==
    Cardinality({ k \in 1..Len(stp.hist) : stp.hist[k].kind # "errored" })

SingleConstrained(e) == e.kind = "stepped" /\ e.succ = 1 /\ e.unc = 0

BudgetExhausted == RopException("Does not get to an unconstrained successor")

HookedStepTaken ==
    /\ pc = "stp_step"
    /\ Len(stp'.hist) = Len(stp.hist) + 1
    /\ SingleConstrained(stp'.hist[Len(stp'.hist)])
    /\ stp'.hist[Len(stp'.hist)].hooked
    /\ stp.max_steps > 0

\* C9: a single constrained successor at a hooked address, with budget
\* left, ends the call with "Skipping simprocedure" when allow_simprocedures
\* is false; when it is true the successor is stepped next with the budget
\* one lower and the flag unchanged.
C9_HookedProcedure ==
    [][ HookedStepTaken
          => IF ~stp.allow_simprocedures
             THEN /\ pc' = "stp_done"
                  /\ stp_ret' = RopException("Skipping simprocedure")
             ELSE /\ pc' = "stp_enter"
                  /\ stp'.max_steps = stp.max_steps - 1
                  /\ stp'.allow_simprocedures = stp.allow_simprocedures
                  /\ stp'.depth = stp.depth + 1 ]_vars

C9_Witness ==
    /\ pc = "stp_done"
    /\ ~stp.allow_simprocedures
    /\ Len(stp.hist) = 2
    /\ stp.hist[2].hooked
    /\ stp_ret = RopException("Skipping simprocedure")

\* C10: a result the stepper returns is the single unconstrained successor
\* of its last step, and every earlier step gave exactly one constrained
\* successor and no unconstrained one.
C10_ReturnsUnconstrainedOnly ==
    (pc = "stp_done" /\ stp_ret.kind = "state")
        => LET n == Len(stp.hist)
           IN /\ n >= 1
              /\ stp.hist[n].kind = "stepped"
              /\ stp.hist[n].unc = 1
              /\ stp.hist[n].succ = 0
              /\ stp_ret.p = Successor(n, "unc")
              /\ \A k \in 1..(n - 1) : SingleConstrained(stp.hist[k])

C10_Witness ==
    /\ pc = "stp_done"
    /\ stp_ret.kind = "state"
    /\ Len(stp.hist) = 3

\* C8: when get_ast_controllers or step_to_unconstrained_successor has
\* returned or failed, the state object the caller passed in is as it was
\* before the call.
C8_CallerStateUntouched ==
    pc \in {"ctl_done", "stp_done"} => caller_state = caller_before

====
